---- MODULE Spec2Model ----
(***************************************************************************)
(* easy-fs block cache (src/easy-fs/src/block_cache.rs).                   *)
(*                                                                         *)
(* The device is a map from block ids to blocks.  A cache entry is an      *)
(* Arc<Mutex<BlockCache>>: the BlockCache fields and the Arc's strong      *)
(* count.  The manager's queue holds one reference to each resident entry  *)
(* and every handle a caller holds is one more.  An entry whose last       *)
(* reference goes away is dropped (Drop for BlockCache).  An entry that    *)
(* left the queue while callers still hold it lives on in `orphans`.       *)
(*                                                                         *)
(* get_block_cache holds the manager lock for the whole of its body, so    *)
(* its body is one step.  block_cache_syn_all holds the manager lock for   *)
(* its whole loop and takes each entry's lock in turn: it is one step per  *)
(* entry, and callers that hold handles read, modify and release entries   *)
(* between those steps.  Callers are not told apart: a handle is one unit  *)
(* of an entry's strong count, and any handle may be used or dropped at    *)
(* any time.  Whether the build checks arithmetic overflow is chosen per   *)
(* typed access; the first panic ends the process.                         *)
(*                                                                         *)
(* easy-fs disk inode (src/easy-fs/src/layout.rs).                         *)
(*                                                                         *)
(* A DiskInode is its size and its index fields; the index blocks and the  *)
(* data blocks are reached through the cache.  Run by one thread, a call   *)
(* of increase_size, clear_size, read_at or write_at is one step: the      *)
(* operators of the layout.rs section compute the inode, the queue and the *)
(* device it leaves behind, or the panic that ended it.  In the locks      *)
(* section increase_size is cut into steps where it asks for a lock, and   *)
(* runs next to block_cache_syn_all and to callers of the cache.           *)
(*                                                                         *)
(* easy-fs directory entry (DirEntry in src/easy-fs/src/layout.rs).        *)
(*                                                                         *)
(* A DirEntry is a zero-padded name and an inode number, and its bytes are *)
(* the two laid out one after the other.  The DirEntry section builds an   *)
(* entry, takes its bytes and asks the entry rebuilt from them for its     *)
(* name and number.                                                        *)
(***************************************************************************)
EXTENDS Integers, Sequences, FiniteSets, TLC

\* ------------------------------------------------------------- bounds
\* The program's BLOCK_SIZE is 512 and its BLOCK_CACHE_SIZE is 16
\* (src/easy-fs/src/lib.rs:12-13).  The code is parametric in both and the
\* model instantiates them at these sizes.
BLOCK_SIZE == 3
BLOCK_CACHE_SIZE == 2
\* usize is modelled UsizeBits wide (64 in the program)
UsizeBits == 3

USIZE_MOD == 2 ^ UsizeBits
Byte == {0, 1}
\* one block id more than the cache holds
BlockIds == 0 .. BLOCK_CACHE_SIZE
\* the blocks callers modify; the others are only loaded, held and evicted
WritableIds == {0, 1}
\* handles callers hold at a time: enough to pin every entry and one more
MaxHandles == BLOCK_CACHE_SIZE + 1
Block == [1 .. BLOCK_SIZE -> Byte]
ZeroBlock == [i \in 1 .. BLOCK_SIZE |-> 0]
\* a block filled with one byte value
Fill(v) == [i \in 1 .. BLOCK_SIZE |-> v]
\* size_of::<T>() of the typed views, and the offsets tried
TypeSizes == 0 .. (BLOCK_SIZE + 1)
Offsets == 0 .. (USIZE_MOD - 1)

\* ------------------------------------------------------------- layout bounds
\* The program's INODE_DIRECT_COUNT is 28 (src/easy-fs/src/layout.rs:10) and
\* its u32 is 32 bits wide; an IndirectBlock holds BLOCK_SIZE / 4 block ids.
\* The model keeps one block id per cell of a block.
INODE_DIRECT_COUNT == 2
U32Bits == 6
\* calls of increase_size in one behaviour
MaxGrows == 2
\* calls of write_at in one behaviour
MaxWrites == 2
\* The program's NAME_LENGTH_LIMIT is 27 (src/easy-fs/src/layout.rs:23); a
\* DirEntry is NAME_LENGTH_LIMIT + 1 name bytes and the 4 bytes of a u32
NAME_LENGTH_LIMIT == 3

VARIABLES
    disk,       \* the block device: block id -> block
    queue,      \* BlockCacheManager.queue, front first: entries
                \* [cache, block_id, modified, strong]
    orphans,    \* entries no longer in the queue that callers still hold
    mgrLock,    \* BLOCK_CACHE_MANAGER's lock is held (by block_cache_syn_all)
    syncPos,    \* position of block_cache_syn_all's iterator (0: not running)
    aborted,    \* "none", or the panic that ended the process
    last,       \* the last operation: its name, the block id it was given or
                \* acted on, <<offset, size_of::<T>()>> of a typed access, its
                \* device I/O in order, its result (read: the view; evicting
                \* get: <<the victim's block id, its queue position>>); for a
                \* Disk Inode call: its name, its first argument, what else
                \* it was given, its result
    shadow,     \* history: block id -> bytes after the last modify of that block
    syncDirtied,\* history: queue positions modified by callers after the
                \* running block_cache_syn_all flushed them
    inode,      \* the DiskInode: [size, direct, indirect1, indirect2]
    nextFree,   \* the allocator: the lowest block id never handed out
    descending, \* the allocator hands out each batch of ids highest first
    grows,      \* calls of increase_size so far
    writes,     \* calls of write_at so far
    shrunk,     \* history: increase_size was called with new_size < size
    owned,      \* history: block ids increase_size consumed since the last
                \* clear_size
    file,       \* history: the bytes of the file, as write_at was asked to
                \* write them
    grow        \* the thread inside increase_size: where it is (pc) and its
                \* locals [ids, id, cur, tot, a0, b0, a1, b1]

\* the variables of the Disk Inode layer
ivars == <<inode, nextFree, descending, grows, writes, shrunk, owned, file, grow>>

vars == <<disk, queue, orphans, mgrLock, syncPos, aborted, last, shadow, syncDirtied, ivars>>

\* ------------------------------------------------------------- helpers
RemoveAt(q, i) == SubSeq(q, 1, i - 1) \o SubSeq(q, i + 1, Len(q))

RECURSIVE SumStrong(_)
SumStrong(q) == IF q = <<>> THEN 0 ELSE Head(q).strong + SumStrong(Tail(q))

\* handles held by callers: every reference that is not the manager's
HandlesHeld == (SumStrong(queue) - Len(queue)) + SumStrong(orphans)

Label(op, arg, at, io, ret) == [op |-> op, arg |-> arg, at |-> at, io |-> io, ret |-> ret]

ReadEv(b) == [op |-> "read", id |-> b]
WriteEv(b) == [op |-> "write", id |-> b]

\* ------------------------------------------------------------- BlockCache
\* Arc::new(Mutex::new(BlockCache::new(block_id, dev))): the block is read
\* from the device
BlockCacheNew(block_id, d) ==
    [cache |-> d[block_id], block_id |-> block_id, modified |-> FALSE, strong |-> 1]

\* sync that clears the flag and never reaches the device
SyncNoWrite(e, d) ==
    [entry |-> [e EXCEPT !.modified = FALSE], disk |-> d, io |-> <<>>]

\* sync that writes and leaves the flag set
SyncKeepFlag(e, d) ==
    IF e.modified
    THEN [entry |-> e,
          disk  |-> [d EXCEPT ![e.block_id] = e.cache],
          io    |-> <<WriteEv(e.block_id)>>]
    ELSE [entry |-> e, disk |-> d, io |-> <<>>]

\* BlockCache::sync on entry e against device d
Sync(e, d) ==
    IF e.modified
    THEN [entry |-> [e EXCEPT !.modified = FALSE],
          disk  |-> [d EXCEPT ![e.block_id] = e.cache],
          io    |-> <<WriteEv(e.block_id)>>]
    ELSE [entry |-> e, disk |-> d, io |-> <<>>]

\* offset + type_size in usize: a build with overflow checks panics when the
\* sum does not fit, a build without them wraps it
OffsetPlusSize(offset, type_size, checks) ==
    [overflow |-> checks /\ offset + type_size >= USIZE_MOD,
     sum      |-> (offset + type_size) % USIZE_MOD]

\* assert!(offset + type_size <= BLOCK_SIZE)
AssertInBlock(sum) == sum <= BLOCK_SIZE

\* addr_of_offset: &self.cache[offset] is a bounds-checked index
AddrOfOffsetOk(offset) == offset < BLOCK_SIZE

\* get_ref up to the reference it returns: the panic it ends in, or "none"
GetRef(e, offset, type_size, checks) ==
    LET a == OffsetPlusSize(offset, type_size, checks) IN
    IF a.overflow THEN [panic |-> "overflow", entry |-> e]
    ELSE IF ~AssertInBlock(a.sum) THEN [panic |-> "assert", entry |-> e]
    ELSE IF ~AddrOfOffsetOk(offset) THEN [panic |-> "index", entry |-> e]
    ELSE [panic |-> "none", entry |-> e]

\* get_mut that leaves the modified flag alone
GetMutNoMark(e, offset, type_size, checks) ==
    LET a == OffsetPlusSize(offset, type_size, checks) IN
    IF a.overflow THEN [panic |-> "overflow", entry |-> e]
    ELSE IF ~AssertInBlock(a.sum) THEN [panic |-> "assert", entry |-> e]
    ELSE IF ~AddrOfOffsetOk(offset) THEN [panic |-> "index", entry |-> e]
    ELSE [panic |-> "none", entry |-> e]

\* get_mut up to the reference it returns: the panic it ends in, or "none",
\* and the entry as it is then (modified is set before addr_of_offset)
GetMut(e, offset, type_size, checks) ==
    LET a == OffsetPlusSize(offset, type_size, checks) IN
    IF a.overflow THEN [panic |-> "overflow", entry |-> e]
    ELSE IF ~AssertInBlock(a.sum) THEN [panic |-> "assert", entry |-> e]
    ELSE LET m == [e EXCEPT !.modified = TRUE] IN
         IF ~AddrOfOffsetOk(offset) THEN [panic |-> "index", entry |-> m]
         ELSE [panic |-> "none", entry |-> m]

\* the bytes of the typed view at offset
View(cache, offset, type_size) ==
    [i \in 1 .. type_size |-> cache[offset + i]]

\* the closure stores new into the typed view at offset
Store(cache, offset, type_size, new) ==
    [i \in 1 .. BLOCK_SIZE |->
        IF offset < i /\ i <= offset + type_size THEN new[i - offset] ELSE cache[i]]

\* ------------------------------------------------------------- BlockCacheManager
\* a lookup that never matches
FindBlockNever(q, block_id) == 0

\* queue.iter().find(|pair| pair.0 == block_id): position of the first entry
\* for block_id, 0 when there is none
FindBlock(q, block_id) ==
    IF \E i \in 1 .. Len(q) : q[i].block_id = block_id
    THEN CHOOSE i \in 1 .. Len(q) :
            /\ q[i].block_id = block_id
            /\ \A j \in 1 .. (i - 1) : q[j].block_id # block_id
    ELSE 0

\* plain FIFO: the front entry, whoever holds it
FindEvictAny(q) == IF Len(q) > 0 THEN 1 ELSE 0

\* the last entry only the manager holds instead of the first
FindEvictLast(q) ==
    IF \E i \in 1 .. Len(q) : q[i].strong = 1
    THEN CHOOSE i \in 1 .. Len(q) :
            /\ q[i].strong = 1
            /\ \A j \in (i + 1) .. Len(q) : q[j].strong # 1
    ELSE 0

\* the first entry with at most one caller holding it
FindEvictOffByOne(q) ==
    IF \E i \in 1 .. Len(q) : q[i].strong <= 2
    THEN CHOOSE i \in 1 .. Len(q) :
            /\ q[i].strong <= 2
            /\ \A j \in 1 .. (i - 1) : q[j].strong > 2
    ELSE 0

\* queue.iter().enumerate().find(|(_, pair)| Arc::strong_count(&pair.1) == 1):
\* position of the first entry only the manager holds, 0 when there is none
FindEvict(q) ==
    IF \E i \in 1 .. Len(q) : q[i].strong = 1
    THEN CHOOSE i \in 1 .. Len(q) :
            /\ q[i].strong = 1
            /\ \A j \in 1 .. (i - 1) : q[j].strong # 1
    ELSE 0

\* the capacity test off by one
IsFullOffByOne(q) == Len(q) = BLOCK_CACHE_SIZE + 1

\* self.queue.len() == BLOCK_CACHE_SIZE
IsFull(q) == Len(q) = BLOCK_CACHE_SIZE

\* the last reference goes away and the entry is freed without Drop's sync
DropRefNoSync(e, d) ==
    IF e.strong = 1
    THEN [left |-> <<>>, disk |-> d, io |-> <<>>]
    ELSE [left |-> <<[e EXCEPT !.strong = @ - 1]>>, disk |-> d, io |-> <<>>]

\* one reference to entry e goes away; Drop for BlockCache (sync) runs when
\* it was the last.  left: the entry if it lives on, as a sequence
DropRef(e, d) ==
    IF e.strong = 1
    THEN LET r == Sync(e, d) IN [left |-> <<>>, disk |-> r.disk, io |-> r.io]
    ELSE [left |-> <<[e EXCEPT !.strong = @ - 1]>>, disk |-> d, io |-> <<>>]

\* no thread is inside increase_size
IdleGrow ==
    [pc |-> "idle", ids |-> <<>>, id |-> 0, cur |-> 0, tot |-> 0,
     a0 |-> 0, b0 |-> 0, a1 |-> 0, b1 |-> 0]

\* DiskInode::initialize: size 0 and every index field 0
EmptyInode ==
    [size |-> 0, direct |-> [i \in 1 .. INODE_DIRECT_COUNT |-> 0],
     indirect1 |-> 0, indirect2 |-> 0]

Init ==
    /\ disk = [b \in BlockIds |-> ZeroBlock]
    /\ queue = <<>>
    /\ orphans = <<>>
    /\ mgrLock = FALSE
    /\ syncPos = 0
    /\ aborted = "none"
    /\ last = Label("init", 0, <<>>, <<>>, <<>>)
    /\ shadow = [b \in BlockIds |-> ZeroBlock]
    /\ syncDirtied = {}
    /\ inode = EmptyInode
    /\ nextFree = 1
    /\ descending = FALSE
    /\ grows = 0
    /\ writes = 0
    /\ shrunk = FALSE
    /\ owned = {}
    /\ file = <<>>
    /\ grow = IdleGrow

\* get_block_cache(block_id, dev), resident block: Arc::clone of the entry.
\* (HandlesHeld < MaxHandles bounds the handles callers keep, here and in
\* GetMiss.)
GetHit(block_id) ==
    /\ aborted = "none" /\ ~mgrLock
    /\ HandlesHeld < MaxHandles
    /\ FindBlock(queue, block_id) # 0
    /\ queue' = [queue EXCEPT ![FindBlock(queue, block_id)].strong = @ + 1]
    /\ last' = Label("get_hit", block_id, <<>>, <<>>, <<>>)
    /\ UNCHANGED <<disk, orphans, mgrLock, syncPos, aborted, shadow, syncDirtied>>
    /\ UNCHANGED ivars

\* get_block_cache(block_id, dev), block not resident, and room left or an
\* entry to evict: drain the victim (its Drop writes it back), load the new
\* block, push_back, return a clone
GetMiss(block_id) ==
    /\ aborted = "none" /\ ~mgrLock
    /\ HandlesHeld < MaxHandles
    /\ FindBlock(queue, block_id) = 0
    /\ IsFull(queue) => FindEvict(queue) # 0
    /\ LET idx == IF IsFull(queue) THEN FindEvict(queue) ELSE 0
           q1  == IF idx = 0 THEN queue ELSE RemoveAt(queue, idx)
           dr  == IF idx = 0 THEN [left |-> <<>>, disk |-> disk, io |-> <<>>]
                  ELSE DropRef(queue[idx], disk)
           e   == BlockCacheNew(block_id, dr.disk)
       IN
       /\ disk' = dr.disk
       /\ orphans' = orphans \o dr.left
       /\ queue' = Append(q1, [e EXCEPT !.strong = @ + 1])
       /\ last' = Label(IF idx = 0 THEN "get_miss" ELSE "get_evict", block_id, <<>>,
                        dr.io \o <<ReadEv(block_id)>>,
                        IF idx = 0 THEN <<>> ELSE <<queue[idx].block_id, idx>>)
    /\ UNCHANGED <<mgrLock, syncPos, aborted, shadow, syncDirtied>>
    /\ UNCHANGED ivars

\* get_block_cache(block_id, dev), block not resident, the cache full and
\* every entry held by a caller: panic!("Run out of BlockCache!")
GetPanic(block_id) ==
    /\ aborted = "none" /\ ~mgrLock
    /\ FindBlock(queue, block_id) = 0
    /\ IsFull(queue) /\ FindEvict(queue) = 0
    /\ aborted' = "RunOutOfBlockCache"
    /\ last' = Label("get_panic", block_id, <<>>, <<>>, <<>>)
    /\ UNCHANGED <<disk, queue, orphans, mgrLock, syncPos, shadow, syncDirtied>>
    /\ UNCHANGED ivars

\* handle.lock().read(offset, f) through a handle to the resident entry at
\* position i, T of type_size bytes, f returning the view
Read(i, offset, type_size, checks) ==
    /\ aborted = "none"
    /\ i \in 1 .. Len(queue)
    /\ queue[i].strong > 1
    /\ LET r == GetRef(queue[i], offset, type_size, checks) IN
       /\ aborted' = r.panic
       /\ last' = Label("read", queue[i].block_id, <<offset, type_size>>, <<>>,
                        IF r.panic = "none"
                        THEN View(queue[i].cache, offset, type_size) ELSE <<>>)
    /\ UNCHANGED <<disk, queue, orphans, mgrLock, syncPos, shadow, syncDirtied>>
    /\ UNCHANGED ivars

\* handle.lock().modify(offset, f) through a handle to the resident entry at
\* position i, T of type_size bytes, f storing new
Modify(i, offset, type_size, new, checks) ==
    /\ aborted = "none"
    /\ i \in 1 .. Len(queue)
    /\ queue[i].strong > 1
    /\ LET r == GetMut(queue[i], offset, type_size, checks)
           e == IF r.panic = "none"
                THEN [r.entry EXCEPT !.cache = Store(@, offset, type_size, new)]
                ELSE r.entry
       IN
       /\ aborted' = r.panic
       /\ queue' = [queue EXCEPT ![i] = e]
       /\ shadow' = IF r.panic = "none"
                    THEN [shadow EXCEPT ![e.block_id] = e.cache] ELSE shadow
       /\ syncDirtied' = IF r.panic = "none" /\ mgrLock /\ i < syncPos
                         THEN syncDirtied \cup {i} ELSE syncDirtied
       /\ last' = Label("modify", e.block_id, <<offset, type_size>>, <<>>, <<>>)
    /\ UNCHANGED <<disk, orphans, mgrLock, syncPos>>
    /\ UNCHANGED ivars

\* a caller drops its handle to the resident entry at position i
Release(i) ==
    /\ aborted = "none"
    /\ i \in 1 .. Len(queue)
    /\ queue[i].strong > 1
    /\ queue' = [queue EXCEPT ![i].strong = @ - 1]
    /\ last' = Label("release", queue[i].block_id, <<>>, <<>>, <<>>)
    /\ UNCHANGED <<disk, orphans, mgrLock, syncPos, aborted, shadow, syncDirtied>>
    /\ UNCHANGED ivars

\* block_cache_syn_all: BLOCK_CACHE_MANAGER.lock()
SynAllLock ==
    /\ aborted = "none" /\ ~mgrLock
    /\ mgrLock' = TRUE
    /\ syncPos' = 1
    /\ last' = Label("syn_all_lock", 0, <<>>, <<>>, <<>>)
    /\ UNCHANGED <<disk, queue, orphans, aborted, shadow, syncDirtied>>
    /\ UNCHANGED ivars

\* a loop that passes over the entries callers hold
SynAllStepSkipHeld ==
    /\ aborted = "none" /\ mgrLock
    /\ syncPos <= Len(queue)
    /\ LET r == IF queue[syncPos].strong > 1
                THEN [entry |-> queue[syncPos], disk |-> disk, io |-> <<>>]
                ELSE Sync(queue[syncPos], disk)
       IN
       /\ queue' = [queue EXCEPT ![syncPos] = r.entry]
       /\ disk' = r.disk
       /\ last' = Label("syn_all_step", queue[syncPos].block_id, <<>>, r.io, <<>>)
    /\ syncDirtied' = syncDirtied \ {syncPos}
    /\ syncPos' = syncPos + 1
    /\ UNCHANGED <<orphans, mgrLock, aborted, shadow>>
    /\ UNCHANGED ivars

\* block_cache_syn_all: cache.lock().sync() of the next entry
SynAllStep ==
    /\ aborted = "none" /\ mgrLock
    /\ syncPos <= Len(queue)
    /\ LET r == Sync(queue[syncPos], disk) IN
       /\ queue' = [queue EXCEPT ![syncPos] = r.entry]
       /\ disk' = r.disk
       /\ last' = Label("syn_all_step", queue[syncPos].block_id, <<>>, r.io, <<>>)
    /\ syncDirtied' = syncDirtied \ {syncPos}
    /\ syncPos' = syncPos + 1
    /\ UNCHANGED <<orphans, mgrLock, aborted, shadow>>
    /\ UNCHANGED ivars

\* block_cache_syn_all returns: the manager guard is dropped
SynAllReturn ==
    /\ aborted = "none" /\ mgrLock
    /\ syncPos > Len(queue)
    /\ mgrLock' = FALSE
    /\ syncPos' = 0
    /\ syncDirtied' = {}
    /\ last' = Label("syn_all_return", 0, <<>>, <<>>, <<>>)
    /\ UNCHANGED <<disk, queue, orphans, aborted, shadow>>
    /\ UNCHANGED ivars

\* the callers of layout.rs: typed views of the whole block at offset 0
\* (DataBlock, IndirectBlock), here storing one byte value throughout
Next ==
    \/ \E b \in BlockIds : GetHit(b)
    \/ \E b \in BlockIds : GetMiss(b)
    \/ \E b \in BlockIds : GetPanic(b)
    \/ \E i \in 1 .. Len(queue) : Read(i, 0, BLOCK_SIZE, FALSE)
    \/ \E i \in 1 .. Len(queue), v \in Byte :
          queue[i].block_id \in WritableIds /\ Modify(i, 0, BLOCK_SIZE, Fill(v), FALSE)
    \/ \E i \in 1 .. Len(queue) : Release(i)
    \/ SynAllLock
    \/ SynAllStep
    \/ SynAllReturn

Spec == Init /\ [][Next]_vars

\* BlockCache::read / BlockCache::modify with every offset and every
\* size_of::<T>(), in builds with and without overflow checks, on the entry
\* of one block
NextTyped ==
    \/ GetMiss(0)
    \/ GetHit(0)
    \/ \E o \in Offsets, n \in TypeSizes, c \in BOOLEAN : Read(1, o, n, c)
    \/ \E o \in Offsets, n \in TypeSizes, c \in BOOLEAN :
          \E new \in [1 .. n -> Byte] : Modify(1, o, n, new, c)
    \/ Release(1)

SpecTyped == Init /\ [][NextTyped]_vars

\* ------------------------------------------------------------- layout.rs
U32_MOD == 2 ^ U32Bits
\* type IndirectBlock = [u32; BLOCK_SIZE / 4], one block id per cell here
INODE_INDIRECT1_COUNT == BLOCK_SIZE
INODE_INDIRECT2_COUNT == INODE_INDIRECT1_COUNT * INODE_INDIRECT1_COUNT
DIRECT_BOUND == INODE_DIRECT_COUNT
INDIRECT1_BOUND == DIRECT_BOUND + INODE_INDIRECT1_COUNT
INDIRECT2_BOUND == INDIRECT1_BOUND + INODE_INDIRECT2_COUNT
\* the maximum addressable size in bytes
MaxFileSize == INDIRECT2_BOUND * BLOCK_SIZE

\* _data_blocks(size) = (size + BLOCK_SIZE as u32 - 1) / BLOCK_SIZE as u32 in
\* u32: a build with overflow checks panics when size + BLOCK_SIZE does not
\* fit, a build without them wraps it
DataBlocks(size, checks) ==
    LET sum == size + BLOCK_SIZE IN
    IF checks /\ sum >= U32_MOD
    THEN [panic |-> "overflow", n |-> 0]
    ELSE [panic |-> "none",
          n     |-> (((sum % U32_MOD) - 1) % U32_MOD) \div BLOCK_SIZE]

\* _data_blocks of a size that the addition cannot overflow on
Blocks(size) == DataBlocks(size, FALSE).n

\* total_blocks(size) given _data_blocks(size): data blocks and index blocks
TotalOf(data_blocks) ==
    data_blocks
    + (IF data_blocks > INODE_DIRECT_COUNT THEN 1 ELSE 0)
    + (IF data_blocks > INDIRECT1_BOUND
       THEN 1 + ((data_blocks + INODE_INDIRECT1_COUNT - INDIRECT1_BOUND - 1)
                    \div INODE_INDIRECT1_COUNT)
       ELSE 0)

\* DiskInode::total_blocks(size)
TotalBlocks(size, checks) ==
    LET d == DataBlocks(size, checks) IN
    [panic |-> d.panic, n |-> IF d.panic = "none" THEN TotalOf(d.n) ELSE 0]

\* block_num_needed(&self, new_size): assert!(new_size >= self.size), then
\* the difference of the two totals
BlockNumNeeded(ino, new_size) ==
    IF ~(new_size >= ino.size)
    THEN [panic |-> "assert", n |-> 0]
    ELSE [panic |-> "none", n |-> TotalOf(Blocks(new_size)) - TotalOf(Blocks(ino.size))]

\* The Disk Inode operations run against the cache.  Their state st is
\* [inode, queue, disk, ids, id, cur, tot, panic]: the DiskInode, the
\* manager's queue, the device, what is left of the new_blocks iterator and
\* the id it gave last, the counters current_blocks and total_blocks, and the
\* panic that ended the operation ("none": still running).

\* get_block_cache(block_id, dev) called by a Disk Inode operation: the entry
\* is cloned, or loaded after the eviction a full queue needs.  A block the
\* device does not have cannot be read.
StGet(st, block_id) ==
    LET q   == st.queue
        hit == FindBlock(q, block_id)
        idx == IF IsFull(q) THEN FindEvict(q) ELSE 0
        q1  == IF idx = 0 THEN q ELSE RemoveAt(q, idx)
        dr  == IF idx = 0 THEN [left |-> <<>>, disk |-> st.disk, io |-> <<>>]
               ELSE DropRef(q[idx], st.disk)
    IN
    IF st.panic # "none" THEN st
    ELSE IF hit # 0 THEN [st EXCEPT !.queue[hit].strong = @ + 1]
    ELSE IF IsFull(q) /\ idx = 0 THEN [st EXCEPT !.panic = "RunOutOfBlockCache"]
    ELSE IF block_id \notin DOMAIN dr.disk
         THEN [st EXCEPT !.queue = q1, !.disk = dr.disk, !.panic = "device"]
    ELSE [st EXCEPT !.disk = dr.disk,
                    !.queue = Append(q1, [BlockCacheNew(block_id, dr.disk)
                                             EXCEPT !.strong = @ + 1])]

\* .lock() and get_mut(0) of a whole-block view on the entry a
\* get_block_cache left in g: the entry is marked modified before the closure
\* runs
MarkMut(g, block_id) ==
    IF g.panic # "none" THEN g
    ELSE [g EXCEPT !.queue[FindBlock(g.queue, block_id)] =
                      GetMut(g.queue[FindBlock(g.queue, block_id)], 0, BLOCK_SIZE, FALSE).entry]

\* get_block_cache(block_id, dev).lock() and get_mut(0) of a whole-block
\* view: the entry is held and marked modified before the closure runs
StGetMut(st, block_id) == MarkMut(StGet(st, block_id), block_id)

\* the handle of the statement is dropped at its end
StDrop(st, block_id) ==
    LET i == FindBlock(st.queue, block_id) IN
    IF st.panic # "none" THEN st
    ELSE [st EXCEPT !.queue[i].strong = @ - 1]

\* cell k of the resident block block_id
Cell(st, block_id, k) == st.queue[FindBlock(st.queue, block_id)].cache[k + 1]

\* the closure stores v into cell k of the resident block block_id
SetCell(st, block_id, k, v) ==
    IF st.panic # "none" THEN st
    ELSE [st EXCEPT !.queue[FindBlock(st.queue, block_id)].cache[k + 1] = v]

\* new_blocks.next().unwrap(): the id is st.id afterwards; None panics
TakeId(st) ==
    IF st.panic # "none" THEN st
    ELSE IF st.ids = <<>> THEN [st EXCEPT !.panic = "unwrap"]
    ELSE [st EXCEPT !.id = Head(st.ids), !.ids = Tail(st.ids)]

\* self.direct[current_blocks] = the id taken; current_blocks += 1
SetDirect(t) ==
    IF t.panic # "none" THEN t
    ELSE [t EXCEPT !.inode.direct[t.cur + 1] = t.id, !.cur = @ + 1]

\* increase_size, fill direct first (lines 157-160)
RECURSIVE FillDirect(_)
FillDirect(st) ==
    IF st.panic # "none" \/ ~(st.cur < st.tot /\ st.cur < INODE_DIRECT_COUNT) THEN st
    ELSE FillDirect(SetDirect(TakeId(st)))

\* indirect1[current_blocks] = the id taken; current_blocks += 1
SetIndirect1(t) ==
    [SetCell(t, t.inode.indirect1, t.cur, t.id) EXCEPT !.cur = @ + 1]

\* increase_size, the closure that fills indirect1 (lines 175-178)
RECURSIVE FillIndirect1(_)
FillIndirect1(st) ==
    IF st.panic # "none" \/ ~(st.cur < st.tot /\ st.cur < INODE_INDIRECT1_COUNT) THEN st
    ELSE FillIndirect1(SetIndirect1(TakeId(st)))

\* indirect2[a0] = the id taken
SetSecond(t, a0) == SetCell(t, t.inode.indirect2, a0, t.id)

\* indirect1[b0] = the id taken, in the second-level block l1, whose handle
\* is dropped at the end of the statement
SetInner(t, l1, b0) == StDrop(SetCell(t, l1, b0, t.id), l1)

\* get_block_cache(indirect2[a0], dev).lock().modify(..) with l1 =
\* indirect2[a0] (lines 206-210).  Locking the entry that is already locked
\* spins for ever.
FillInnerAt(s1, l1, b0) ==
    IF l1 = s1.inode.indirect2 THEN [s1 EXCEPT !.panic = "deadlock"]
    ELSE SetInner(TakeId(StGetMut(s1, l1)), l1, b0)

\* fill current indirect1 (lines 205-210)
FillInner(s1, a0, b0) ==
    IF s1.panic # "none" THEN s1
    ELSE FillInnerAt(s1, Cell(s1, s1.inode.indirect2, a0), b0)

\* increase_size, the closure that fills indirect2 (lines 200-216): a new
\* second-level block takes an id when b0 = 0, and each data block id is
\* stored through a nested get_block_cache of the second-level block while
\* the indirect2 entry is held and locked.
RECURSIVE FillIndirect2(_, _, _, _, _)
FillIndirect2(st, a0, b0, a1, b1) ==
    IF st.panic # "none" \/ ~((a0 < a1) \/ (a0 = a1 /\ b0 < b1)) THEN st
    ELSE FillIndirect2(FillInner(IF b0 = 0 THEN SetSecond(TakeId(st), a0) ELSE st, a0, b0),
                       IF b0 + 1 = INODE_INDIRECT1_COUNT THEN a0 + 1 ELSE a0,
                       IF b0 + 1 = INODE_INDIRECT1_COUNT THEN 0 ELSE b0 + 1, a1, b1)

\* current_blocks -= n; total_blocks -= n
Rebase(st, n) == [st EXCEPT !.cur = @ - n, !.tot = @ - n]

\* self.indirect1 = the id taken
TakeIndirect1(t) == IF t.panic # "none" THEN t ELSE [t EXCEPT !.inode.indirect1 = t.id]

\* self.indirect2 = the id taken
TakeIndirect2(t) == IF t.panic # "none" THEN t ELSE [t EXCEPT !.inode.indirect2 = t.id]

\* an alloc indirect1 that takes a new index block whenever the file reaches
\* past the direct blocks
AllocIndirect1Always(s1) ==
    Rebase(TakeIndirect1(TakeId(s1)), INODE_DIRECT_COUNT)

\* alloc indirect1 (lines 163-168)
AllocIndirect1(s1) ==
    Rebase(IF s1.cur # INODE_DIRECT_COUNT THEN s1 ELSE TakeIndirect1(TakeId(s1)),
           INODE_DIRECT_COUNT)

\* alloc indirect2 (lines 182-187)
AllocIndirect2(s4) ==
    Rebase(IF s4.cur # INODE_INDIRECT1_COUNT THEN s4 ELSE TakeIndirect2(TakeId(s4)),
           INODE_INDIRECT1_COUNT)

\* fill indirect1 (lines 172-179)
GrowIndirect1(s3) ==
    StDrop(FillIndirect1(StGetMut(s3, s3.inode.indirect1)), s3.inode.indirect1)

\* fill indirect2 (lines 192-217)
GrowIndirect2(s6) ==
    StDrop(FillIndirect2(StGetMut(s6, s6.inode.indirect2),
                         s6.cur \div INODE_INDIRECT1_COUNT, s6.cur % INODE_INDIRECT1_COUNT,
                         s6.tot \div INODE_INDIRECT1_COUNT, s6.tot % INODE_INDIRECT1_COUNT),
           s6.inode.indirect2)

\* increase_size once indirect1 is filled (lines 180-217)
GrowPastIndirect1(s4) ==
    IF s4.panic # "none" \/ ~(s4.tot > INODE_INDIRECT1_COUNT) THEN s4
    ELSE GrowIndirect2(AllocIndirect2(s4))

\* increase_size once the direct entries are filled (lines 161-217)
GrowPastDirect(s1) ==
    IF s1.panic # "none" \/ ~(s1.tot > INODE_DIRECT_COUNT) THEN s1
    ELSE GrowPastIndirect1(GrowIndirect1(AllocIndirect1(s1)))

\* increase_size(&mut self, new_size, new_blocks, dev) on inode ino with the
\* cache (q, d): the state it ends in
IncreaseSize(ino, q, d, new_size, new_blocks) ==
    LET st0 == [inode |-> [ino EXCEPT !.size = new_size], queue |-> q, disk |-> d,
                ids |-> new_blocks, id |-> 0, cur |-> Blocks(ino.size),
                tot |-> Blocks(new_size), panic |-> "none"]
    IN
    IF st0.tot > INODE_INDIRECT2_COUNT THEN [st0 EXCEPT !.panic = "file too large"]
    ELSE GrowPastDirect(FillDirect(st0))

\* the closure |b: &IndirectBlock| b[k] on the entry a get_block_cache left
\* in g: the state afterwards and the value read; b[k] is a checked index
CellOf(g, block_id, k) ==
    IF g.panic # "none" THEN [st |-> g, val |-> 0]
    ELSE IF ~(k < INODE_INDIRECT1_COUNT) THEN [st |-> [g EXCEPT !.panic = "index"], val |-> 0]
    ELSE [st |-> StDrop(g, block_id), val |-> Cell(g, block_id, k)]

\* get_block_cache(block_id, dev).lock().read(0, |b: &IndirectBlock| b[k])
ReadCell(st, block_id, k) == CellOf(StGet(st, block_id), block_id, k)

\* the second-level block r1 names, read at k
ThenCell(r1, k) == IF r1.st.panic # "none" THEN r1 ELSE ReadCell(r1.st, r1.val, k)

\* get_block_id(&self, inner_id, dev)
GetBlockId(st, inner_id) ==
    IF inner_id < INODE_DIRECT_COUNT
    THEN [st |-> st, val |-> st.inode.direct[inner_id + 1]]
    ELSE IF inner_id < INDIRECT1_BOUND
    THEN ReadCell(st, st.inode.indirect1, inner_id - INODE_DIRECT_COUNT)
    ELSE ThenCell(ReadCell(st, st.inode.indirect2,
                           (inner_id - INDIRECT1_BOUND) \div INODE_INDIRECT1_COUNT),
                  (inner_id - INDIRECT1_BOUND) % INODE_INDIRECT1_COUNT)

Min(a, b) == IF a < b THEN a ELSE b

\* v.push(id)
PushId(st, id) == [st EXCEPT !.v = Append(@, id)]

\* v.push of the first n cells of the resident block block_id
PushCells(st, block_id, n) ==
    [st EXCEPT !.v = @ \o [k \in 1 .. n |-> Cell(st, block_id, k - 1)]]

\* the closure over the block l1 that g holds: its first n entries are
\* pushed, and its handle dropped at the end of the statement
PushDrop(g, l1, n) ==
    IF g.panic # "none" THEN g ELSE StDrop(PushCells(g, l1, n), l1)

\* v.push(l1) and the nested get_block_cache(l1, dev).lock().modify(..);
\* locking the entry that is already locked spins for ever
ClearSecondAt(st, l1, n) ==
    IF l1 = st.inode.indirect2 THEN [PushId(st, l1) EXCEPT !.panic = "deadlock"]
    ELSE PushDrop(StGetMut(PushId(st, l1), l1), l1, n)

\* a walk that returns the entries of a second-level block and not its id
ClearSecondNoId(st, a, n) ==
    IF st.panic # "none" THEN st
    ELSE PushDrop(StGetMut(st, Cell(st, st.inode.indirect2, a)),
                  Cell(st, st.inode.indirect2, a), n)

\* clear_size, inside the indirect2 closure: push the id of second-level
\* block a and the first n of its entries, read through a nested
\* get_block_cache + modify
ClearSecond(st, a, n) ==
    IF st.panic # "none" THEN st
    ELSE ClearSecondAt(st, Cell(st, st.inode.indirect2, a), n)

\* clear_size, the closure over indirect2 (lines 263-283): a1 full
\* second-level blocks from a on, then b1 entries of the last one
RECURSIVE ClearIndirect2(_, _, _, _)
ClearIndirect2(st, a, a1, b1) ==
    IF st.panic # "none" THEN st
    ELSE IF a < a1 /\ a < INODE_INDIRECT1_COUNT
    THEN ClearIndirect2(ClearSecond(st, a, INODE_INDIRECT1_COUNT), a + 1, a1, b1)
    ELSE IF b1 > 0 THEN ClearSecond(st, a1, b1)
    ELSE st

\* clear_size, direct (lines 221-230): the size is 0, the used direct
\* entries are pushed and zeroed
ClearDirect(ino, q, d) ==
    LET nd == Min(Blocks(ino.size), INODE_DIRECT_COUNT) IN
    [inode |-> [ino EXCEPT !.size = 0,
                           !.direct = [i \in 1 .. INODE_DIRECT_COUNT |->
                                         IF i <= nd THEN 0 ELSE ino.direct[i]]],
     queue |-> q, disk |-> d, panic |-> "none",
     v |-> [i \in 1 .. nd |-> ino.direct[i]]]

\* clear_size, the closure over indirect1 (lines 243-248) on the entry g1
\* holds, then self.indirect1 = 0
ClearIndirect1In(g1, data1) ==
    IF g1.panic # "none" THEN g1
    ELSE [StDrop(PushCells(g1, g1.inode.indirect1, Min(data1, INODE_INDIRECT1_COUNT)),
                 g1.inode.indirect1)
             EXCEPT !.inode.indirect1 = 0]

\* clear_size, the end of the closure over indirect2 and self.indirect2 = 0
\* (lines 284-285)
ClearTopDrop(s4) ==
    IF s4.panic # "none" THEN s4
    ELSE [StDrop(s4, s4.inode.indirect2) EXCEPT !.inode.indirect2 = 0]

\* clear_size, indirect2 (lines 256-285), data2 blocks behind indirect2
ClearTop(s3, data2) ==
    IF ~(data2 <= INODE_INDIRECT2_COUNT) THEN [s3 EXCEPT !.panic = "assert"]
    ELSE ClearTopDrop(ClearIndirect2(StGetMut(s3, s3.inode.indirect2), 0,
                                     data2 \div INODE_INDIRECT1_COUNT,
                                     data2 % INODE_INDIRECT1_COUNT))

\* clear_size, indirect2 block (lines 250-255), data1 blocks behind the
\* direct entries
ClearPastIndirect1(s2, data1) ==
    IF s2.panic # "none" \/ ~(data1 > INODE_INDIRECT1_COUNT) THEN s2
    ELSE ClearTop(PushId(s2, s2.inode.indirect2), data1 - INODE_INDIRECT1_COUNT)

\* clear_size, indirect1 block and indirect (lines 231-285), data0 data
\* blocks in all
ClearPastDirect(st0, data0) ==
    IF ~(data0 > INODE_DIRECT_COUNT) THEN st0
    ELSE ClearPastIndirect1(
             ClearIndirect1In(StGetMut(PushId(st0, st0.inode.indirect1),
                                       st0.inode.indirect1),
                              data0 - INODE_DIRECT_COUNT),
             data0 - INODE_DIRECT_COUNT)

\* clear_size(&mut self, dev) on inode ino with the cache (q, d): the state it
\* ends in, v the ids it returns
ClearSize(ino, q, d) == ClearPastDirect(ClearDirect(ino, q, d), Blocks(ino.size))

\* end_current_block = (start / BLOCK_SIZE + 1) * BLOCK_SIZE, at most end
EndCurrentBlock(start, end) == Min(((start \div BLOCK_SIZE) + 1) * BLOCK_SIZE, end)

\* read_at, the copy out of the entry g holds for block b (lines 312-322):
\* block_read_size bytes from start % BLOCK_SIZE on go to the next part of
\* buf, read_size grows, the handle is dropped
ReadFrom(g, b, start, block_read_size) ==
    IF g.panic # "none" THEN g
    ELSE [StDrop(g, b) EXCEPT
            !.buf = [i \in 1 .. Len(g.buf) |->
                       IF g.n < i /\ i <= g.n + block_read_size
                       THEN g.queue[FindBlock(g.queue, b)].cache[(start % BLOCK_SIZE) + (i - g.n)]
                       ELSE g.buf[i]],
            !.n = @ + block_read_size]

\* read_at, get_block_cache of the block get_block_id gave (r) and the copy
ReadVia(r, start, block_read_size) ==
    ReadFrom(StGet(r.st, r.val), r.val, start, block_read_size)

\* read_at, the loop (lines 305-328): one block per turn, st.buf the caller's
\* buffer, st.n read_size
RECURSIVE ReadLoop(_, _, _, _)
\* read_at, the end of a turn (lines 323-327)
ReadNext(s1, end_current_block, start_block, end) ==
    IF s1.panic # "none" \/ end_current_block = end THEN s1
    ELSE ReadLoop(s1, end_current_block, start_block + 1, end)

ReadLoop(st, start, start_block, end) ==
    ReadNext(ReadVia(GetBlockId(st, start_block), start, EndCurrentBlock(start, end) - start),
             EndCurrentBlock(start, end), start_block, end)

\* a read_at that does not clamp the range to the size of the file
ReadAtNoClamp(ino, q, d, offset, buf) ==
    LET st0 == [inode |-> ino, queue |-> q, disk |-> d, panic |-> "none",
                buf |-> buf, n |-> 0]
        end == offset + Len(buf)
    IN
    IF offset >= end THEN st0
    ELSE ReadLoop(st0, offset, offset \div BLOCK_SIZE, end)

\* read_at(&self, offset, buf, dev) on inode ino with the cache (q, d): the
\* state it ends in, n the count it returns, buf the buffer afterwards
ReadAt(ino, q, d, offset, buf) ==
    LET st0 == [inode |-> ino, queue |-> q, disk |-> d, panic |-> "none",
                buf |-> buf, n |-> 0]
        end == Min(offset + Len(buf), ino.size)
    IN
    IF offset >= end THEN st0
    ELSE ReadLoop(st0, offset, offset \div BLOCK_SIZE, end)

\* a copy that also zeroes the block behind the bytes it wrote
WriteIntoZeroRest(g, b, start, block_write_size) ==
    IF g.panic # "none" THEN g
    ELSE [StDrop([g EXCEPT
                    !.queue[FindBlock(g.queue, b)].cache =
                        [k \in 1 .. BLOCK_SIZE |->
                           IF (start % BLOCK_SIZE) < k
                              /\ k <= (start % BLOCK_SIZE) + block_write_size
                           THEN g.buf[g.n + (k - (start % BLOCK_SIZE))]
                           ELSE IF (start % BLOCK_SIZE) < k THEN 0
                           ELSE @[k]]],
                 b)
            EXCEPT !.n = @ + block_write_size]

\* write_at, the copy into the entry g holds for block b (lines 352-361):
\* the next block_write_size bytes of buf go to start % BLOCK_SIZE on,
\* write_size grows, the handle is dropped
WriteInto(g, b, start, block_write_size) ==
    IF g.panic # "none" THEN g
    ELSE [StDrop([g EXCEPT
                    !.queue[FindBlock(g.queue, b)].cache =
                        [k \in 1 .. BLOCK_SIZE |->
                           IF (start % BLOCK_SIZE) < k
                              /\ k <= (start % BLOCK_SIZE) + block_write_size
                           THEN g.buf[g.n + (k - (start % BLOCK_SIZE))]
                           ELSE @[k]]],
                 b)
            EXCEPT !.n = @ + block_write_size]

\* write_at, get_block_cache of the block get_block_id gave (r), get_mut and
\* the copy
WriteVia(r, start, block_write_size) ==
    WriteInto(StGetMut(r.st, r.val), r.val, start, block_write_size)

\* write_at, the loop (lines 344-367): one block per turn, st.buf the bytes
\* to write, st.n write_size
RECURSIVE WriteLoop(_, _, _, _)
\* write_at, the end of a turn (lines 362-366)
WriteNext(s1, end_current_block, start_block, end) ==
    IF s1.panic # "none" \/ end_current_block = end THEN s1
    ELSE WriteLoop(s1, end_current_block, start_block + 1, end)

WriteLoop(st, start, start_block, end) ==
    WriteNext(WriteVia(GetBlockId(st, start_block), start, EndCurrentBlock(start, end) - start),
              EndCurrentBlock(start, end), start_block, end)

\* write_at(&mut self, offset, buf, dev) on inode ino with the cache (q, d):
\* the state it ends in, n the count it returns
WriteAt(ino, q, d, offset, buf) ==
    LET st0 == [inode |-> ino, queue |-> q, disk |-> d, panic |-> "none",
                buf |-> buf, n |-> 0]
        end == Min(offset + Len(buf), ino.size)
    IN
    IF ~(offset <= end) THEN [st0 EXCEPT !.panic = "assert"]
    ELSE WriteLoop(st0, offset, offset \div BLOCK_SIZE, end)

\* ------------------------------------------------------------- Disk Inode calls
\* the block counts at which increase_size changes course: none, one, each
\* tier full, one and two second-level blocks full, and the most blocks it
\* accepts
GrowBlocks ==
    {0, 1, DIRECT_BOUND, INDIRECT1_BOUND, INDIRECT1_BOUND + INODE_INDIRECT1_COUNT,
     INDIRECT1_BOUND + 2 * INODE_INDIRECT1_COUNT, INODE_INDIRECT2_COUNT, INDIRECT2_BOUND}
\* the sizes callers ask for: those that end on one of these block boundaries
\* and those one byte past it
NewSizes == {b * BLOCK_SIZE + e : b \in GrowBlocks, e \in {0, 1}}
\* the blocks of the device: block 0 and the blocks the allocator hands out
DeviceBlocks == 1 + MaxGrows * TotalOf(INDIRECT2_BOUND)
DeviceIds == 0 .. (DeviceBlocks - 1)

\* n distinct ids the allocator never handed out, ascending or descending
FreshIds(n) ==
    [i \in 1 .. n |-> IF descending THEN nextFree + n - i ELSE nextFree + i - 1]

\* EFS_MAGIC (0xdeadbeef), in the model's u32: no block of the device has
\* this id
EFS_MAGIC == U32_MOD - 1

\* block 0 of the device holds the SuperBlock, magic first
SuperBlockImage == [i \in 1 .. BLOCK_SIZE |-> IF i = 1 THEN EFS_MAGIC ELSE 0]

InitInode ==
    /\ disk = [b \in DeviceIds |-> IF b = 0 THEN SuperBlockImage ELSE ZeroBlock]
    /\ queue = <<>>
    /\ orphans = <<>>
    /\ mgrLock = FALSE
    /\ syncPos = 0
    /\ aborted = "none"
    /\ last = Label("init", 0, <<>>, <<>>, <<>>)
    /\ shadow = <<>>
    /\ syncDirtied = {}
    /\ inode = EmptyInode
    /\ nextFree = 1
    /\ descending \in BOOLEAN
    /\ grows = 0
    /\ writes = 0
    /\ shrunk = FALSE
    /\ owned = {}
    /\ file = <<>>
    /\ grow = IdleGrow

\* the caller allocates the ids block_num_needed asks for (none when
\* new_size < size, where it cannot be asked) and calls
\* increase_size(new_size, ids, dev).  at: <<the ids, the inode before>>,
\* ret: the ids left in the iterator
IncreaseSizeCall(new_size) ==
    /\ aborted = "none"
    /\ grows < MaxGrows
    /\ LET need == BlockNumNeeded(inode, new_size)
           ids  == FreshIds(need.n)
           r    == IncreaseSize(inode, queue, disk, new_size, ids)
       IN
       /\ inode' = r.inode
       /\ queue' = r.queue
       /\ disk' = r.disk
       /\ aborted' = r.panic
       /\ nextFree' = nextFree + need.n
       /\ owned' = owned \cup {ids[i] : i \in 1 .. (Len(ids) - Len(r.ids))}
       /\ file' = IF r.panic = "none" /\ new_size >= Len(file)
                  THEN file \o [i \in 1 .. (new_size - Len(file)) |-> 0]
                  ELSE file
       /\ last' = Label("increase_size", new_size, <<ids, inode>>, <<>>, Len(r.ids))
    /\ grows' = grows + 1
    /\ shrunk' = (shrunk \/ new_size < inode.size)
    /\ UNCHANGED <<orphans, mgrLock, syncPos, shadow, syncDirtied, descending, writes, grow>>

\* clear_size(dev).  at: the ids the inode's growths consumed, ret: the ids
\* returned
ClearSizeCall ==
    /\ aborted = "none"
    /\ LET r == ClearSize(inode, queue, disk) IN
       /\ inode' = r.inode
       /\ queue' = r.queue
       /\ disk' = r.disk
       /\ aborted' = r.panic
       /\ last' = Label("clear_size", 0, owned, <<>>, r.v)
    /\ owned' = {}
    /\ file' = <<>>
    /\ UNCHANGED <<orphans, mgrLock, syncPos, shadow, syncDirtied, nextFree, descending, grows,
                   writes, shrunk, grow>>

\* block_num_needed(new_size), asked once the growths are done.  at: <<no
\* ids, the inode>>
BlockNumNeededCall(new_size) ==
    /\ aborted = "none"
    /\ grows = MaxGrows
    /\ LET r == BlockNumNeeded(inode, new_size) IN
       /\ aborted' = r.panic
       /\ last' = Label("block_num_needed", new_size, <<<<>>, inode>>, <<>>, r.n)
    /\ UNCHANGED <<disk, queue, orphans, mgrLock, syncPos, shadow, syncDirtied, ivars>>

\* DiskInode::total_blocks(size) of any u32, in a build with or without
\* overflow checks (at): ret is <<_data_blocks(size), total_blocks(size)>>
TotalBlocksCall(size, checks) ==
    /\ aborted = "none"
    /\ LET t == TotalBlocks(size, checks) IN
       /\ aborted' = t.panic
       /\ last' = Label("total_blocks", size, <<checks>>, <<>>,
                        <<DataBlocks(size, checks).n, t.n>>)
    /\ UNCHANGED <<disk, queue, orphans, mgrLock, syncPos, shadow, syncDirtied, ivars>>

NextGrow ==
    \/ \E n \in NewSizes : IncreaseSizeCall(n)
    \/ ClearSizeCall
    \/ \E n \in NewSizes : BlockNumNeededCall(n)

\* the bytes a caller writes: len bytes, all different, and different from
\* those of its other writes and from the zero bytes of a fresh block
Pattern(len, w) == [i \in 1 .. len |-> i + w * (2 * BLOCK_SIZE)]
\* the byte a caller's read buffer is filled with beforehand
Stale == 255
\* the buffer lengths tried: empty, across one block boundary, across two
IoLens == {0, 2, BLOCK_SIZE + 2}
\* the offsets tried on a file of size bytes: the start, the last byte of
\* the direct blocks and of the indirect1 blocks, and around the end
IoOffsets(size) ==
    {0, DIRECT_BOUND * BLOCK_SIZE - 1, INDIRECT1_BOUND * BLOCK_SIZE - 1,
     size - 1, size, size + 1} \cap (0 .. (size + 1))
\* the sizes files are grown to before they are written and read: empty, one
\* byte, the direct blocks full, the indirect1 blocks full, each of these and
\* one byte, and the largest size increase_size accepts
IoSizes ==
    {0, 1, DIRECT_BOUND * BLOCK_SIZE, DIRECT_BOUND * BLOCK_SIZE + 1,
     INDIRECT1_BOUND * BLOCK_SIZE, INDIRECT1_BOUND * BLOCK_SIZE + 1,
     INODE_INDIRECT2_COUNT * BLOCK_SIZE}

\* write_at(offset, buf, dev)
WriteAtCall(offset, buf) ==
    /\ aborted = "none"
    /\ writes < MaxWrites
    /\ LET r == WriteAt(inode, queue, disk, offset, buf) IN
       /\ queue' = r.queue
       /\ disk' = r.disk
       /\ aborted' = r.panic
       /\ file' = IF r.panic = "none"
                  THEN [i \in 1 .. Len(file) |->
                          IF offset < i /\ i <= offset + Len(buf) THEN buf[i - offset]
                          ELSE file[i]]
                  ELSE file
       /\ last' = Label("write_at", offset, buf, <<>>, r.n)
    /\ writes' = writes + 1
    /\ UNCHANGED <<orphans, mgrLock, syncPos, shadow, syncDirtied, inode, nextFree, descending,
                   grows, shrunk, owned, grow>>

\* read_at(offset, buf, dev) with a buffer of len bytes
ReadAtCall(offset, len) ==
    /\ aborted = "none"
    /\ last.op # "read_at"
    /\ LET r == ReadAt(inode, queue, disk, offset, [i \in 1 .. len |-> Stale]) IN
       /\ queue' = r.queue
       /\ disk' = r.disk
       /\ aborted' = r.panic
       /\ last' = Label("read_at", offset, <<len>>, <<>>, <<r.n, r.buf>>)
    /\ UNCHANGED <<orphans, mgrLock, syncPos, shadow, syncDirtied, ivars>>

\* a file is grown, then written, then read: a read changes nothing but the
\* cache, and nothing is explored after it
NextIO ==
    \/ \E n \in IoSizes : writes = 0 /\ n >= inode.size /\ IncreaseSizeCall(n)
    \/ \E o \in IoOffsets(inode.size), n \in IoLens :
          last.op # "read_at" /\ WriteAtCall(o, Pattern(n, writes + 1))
    \/ \E o \in IoOffsets(inode.size), n \in IoLens : ReadAtCall(o, n)

\* the allocator hands out ascending ids
InitIO == InitInode /\ ~descending

SpecIO == InitIO /\ [][NextIO]_vars

\* total_blocks and _data_blocks over every u32
NextSizes ==
    \E n \in 0 .. (U32_MOD - 1), c \in BOOLEAN : TotalBlocksCall(n, c)

SpecSizes == Init /\ [][NextSizes]_vars

SpecGrow == InitInode /\ [][NextGrow]_vars

\* ------------------------------------------------------------- locks
\* increase_size run by one thread while other threads use the cache.  Both
\* locks are spin locks: a thread that asks for a held lock waits, which is
\* an action that is not enabled.  get_block_cache takes and gives back the
\* manager lock within its body; handle.lock().modify(..) takes and gives
\* back the entry's lock around its closure.  increase_size is cut where it
\* asks for a lock: before each get_block_cache and before each lock().  The
\* closure over indirect2 (lines 200-216) runs with the lock of the
\* indirect2 entry held, from IncLockIndirect2 to IncReturn.

\* the entry locks held from one step to the next, by block id
HeldLocks == IF grow.pc \in {"loop", "inner"} THEN {inode.indirect2} ELSE {}

\* the state the thread inside increase_size works on
GrowSt ==
    [inode |-> inode, queue |-> queue, disk |-> disk, ids |-> grow.ids, id |-> grow.id,
     cur |-> grow.cur, tot |-> grow.tot, panic |-> "none"]

\* the thread leaves state st behind and goes on at pc with the closure's
\* counters a0, b0, a1, b1
GrowTo(st, pc, a0, b0, a1, b1) ==
    /\ inode' = st.inode
    /\ queue' = st.queue
    /\ disk' = st.disk
    /\ aborted' = st.panic
    /\ grow' = [pc |-> IF st.panic = "none" THEN pc ELSE "idle", ids |-> st.ids, id |-> st.id,
                cur |-> st.cur, tot |-> st.tot, a0 |-> a0, b0 |-> b0, a1 |-> a1, b1 |-> b1]

\* increase_size(new_size, ids, dev) up to its first get_block_cache (lines
\* 149-170): the size is set, the direct entries are filled and indirect1
\* takes an id; the call returns here when the direct entries suffice
IncStart(new_size) ==
    /\ aborted = "none" /\ grow.pc = "idle"
    /\ grows < MaxGrows
    /\ LET need == BlockNumNeeded(inode, new_size)
           ids  == FreshIds(need.n)
           st0  == [inode |-> [inode EXCEPT !.size = new_size], queue |-> queue,
                    disk |-> disk, ids |-> ids, id |-> 0, cur |-> Blocks(inode.size),
                    tot |-> Blocks(new_size), panic |-> "none"]
           s1   == FillDirect(st0)
           t1   == TakeId(s1)
           s2   == IF s1.cur # INODE_DIRECT_COUNT THEN s1
                   ELSE IF t1.panic # "none" THEN t1
                   ELSE [t1 EXCEPT !.inode.indirect1 = t1.id]
           s3   == [s2 EXCEPT !.cur = @ - INODE_DIRECT_COUNT, !.tot = @ - INODE_DIRECT_COUNT]
       IN
       /\ IF st0.tot > INODE_INDIRECT2_COUNT
          THEN GrowTo([st0 EXCEPT !.panic = "file too large"], "idle", 0, 0, 0, 0)
          ELSE IF s1.panic # "none" \/ ~(s1.tot > INODE_DIRECT_COUNT)
          THEN GrowTo(s1, "idle", 0, 0, 0, 0)
          ELSE GrowTo(s3, "get1", 0, 0, 0, 0)
       /\ nextFree' = nextFree + need.n
       /\ owned' = owned \cup {ids[i] : i \in 1 .. Len(ids)}
       /\ file' = file \o [i \in 1 .. (new_size - Len(file)) |-> 0]
       /\ last' = Label("inc_start", new_size, <<ids, inode>>, <<>>, <<>>)
    /\ grows' = grows + 1
    /\ UNCHANGED <<orphans, mgrLock, syncPos, shadow, syncDirtied, descending, writes, shrunk>>

\* get_block_cache(self.indirect1, dev) (line 172): the manager lock is
\* taken, the entry cloned or loaded, the lock given back
IncGetIndirect1 ==
    /\ aborted = "none" /\ grow.pc = "get1"
    /\ ~mgrLock
    /\ GrowTo(StGet(GrowSt, inode.indirect1), "lock1", 0, 0, 0, 0)
    /\ last' = Label("inc_get", inode.indirect1, <<>>, <<>>, <<>>)
    /\ UNCHANGED <<orphans, mgrLock, syncPos, shadow, syncDirtied, nextFree, descending, grows,
                   writes, shrunk, owned, file>>

\* .lock().modify(0, |indirect1| ..) (lines 173-179), the handle dropped at
\* the end of the statement, then indirect2 takes an id (lines 181-190); the
\* call returns here when indirect1 suffices
IncFillIndirect1 ==
    /\ aborted = "none" /\ grow.pc = "lock1"
    /\ inode.indirect1 \notin HeldLocks
    /\ LET i  == FindBlock(queue, inode.indirect1)
           m  == [GrowSt EXCEPT !.queue[i] = GetMut(queue[i], 0, BLOCK_SIZE, FALSE).entry]
           s4 == StDrop(FillIndirect1(m), inode.indirect1)
           t4 == TakeId(s4)
           s5 == IF s4.cur # INODE_INDIRECT1_COUNT THEN s4
                 ELSE IF t4.panic # "none" THEN t4
                 ELSE [t4 EXCEPT !.inode.indirect2 = t4.id]
           s6 == [s5 EXCEPT !.cur = @ - INODE_INDIRECT1_COUNT,
                            !.tot = @ - INODE_INDIRECT1_COUNT]
       IN
       IF s4.panic # "none" \/ ~(s4.tot > INODE_INDIRECT1_COUNT)
       THEN GrowTo(s4, "idle", 0, 0, 0, 0)
       ELSE GrowTo(s6, "get2", s6.cur \div INODE_INDIRECT1_COUNT,
                   s6.cur % INODE_INDIRECT1_COUNT, s6.tot \div INODE_INDIRECT1_COUNT,
                   s6.tot % INODE_INDIRECT1_COUNT)
    /\ last' = Label("inc_fill", inode.indirect1, <<>>, <<>>, <<>>)
    /\ UNCHANGED <<orphans, mgrLock, syncPos, shadow, syncDirtied, nextFree, descending, grows,
                   writes, shrunk, owned, file>>

\* get_block_cache(self.indirect2, dev) (line 198)
IncGetIndirect2 ==
    /\ aborted = "none" /\ grow.pc = "get2"
    /\ ~mgrLock
    /\ GrowTo(StGet(GrowSt, inode.indirect2), "lock2", grow.a0, grow.b0, grow.a1, grow.b1)
    /\ last' = Label("inc_get", inode.indirect2, <<>>, <<>>, <<>>)
    /\ UNCHANGED <<orphans, mgrLock, syncPos, shadow, syncDirtied, nextFree, descending, grows,
                   writes, shrunk, owned, file>>

\* .lock().modify(0, |indirect2| ..) (lines 199-200): the entry's lock is
\* taken, get_mut marks the entry modified and the closure begins
IncLockIndirect2 ==
    /\ aborted = "none" /\ grow.pc = "lock2"
    /\ LET i == FindBlock(queue, inode.indirect2) IN
       GrowTo([GrowSt EXCEPT !.queue[i] = GetMut(queue[i], 0, BLOCK_SIZE, FALSE).entry],
              "loop", grow.a0, grow.b0, grow.a1, grow.b1)
    /\ last' = Label("inc_lock", inode.indirect2, <<>>, <<>>, <<>>)
    /\ UNCHANGED <<orphans, mgrLock, syncPos, shadow, syncDirtied, nextFree, descending, grows,
                   writes, shrunk, owned, file>>

\* the closure's loop (a0, b0) < (a1, b1) (line 201)
GrowMore == (grow.a0 < grow.a1) \/ (grow.a0 = grow.a1 /\ grow.b0 < grow.b1)

\* one turn of the closure over indirect2 up to its get_block_cache (lines
\* 201-206): a new second-level block takes an id, then
\* get_block_cache(indirect2[a0], dev) asks for the manager lock with the
\* lock of the indirect2 entry held
IncLoopGet ==
    /\ aborted = "none" /\ grow.pc = "loop"
    /\ GrowMore
    /\ ~mgrLock
    /\ LET t1 == TakeId(GrowSt)
           s1 == IF grow.b0 = 0 THEN SetCell(t1, inode.indirect2, grow.a0, t1.id) ELSE GrowSt
           l1 == Cell(s1, inode.indirect2, grow.a0)
       IN
       /\ GrowTo(StGet(s1, l1), "inner", grow.a0, grow.b0, grow.a1, grow.b1)
       /\ last' = Label("inc_get", l1, <<>>, <<>>, <<>>)
    /\ UNCHANGED <<orphans, mgrLock, syncPos, shadow, syncDirtied, nextFree, descending, grows,
                   writes, shrunk, owned, file>>

\* .lock().modify(0, |indirect1| indirect1[b0] = ..) of the second-level
\* block (lines 207-210), its handle dropped, and the move to the next entry
\* (lines 212-216)
IncFillInner ==
    /\ aborted = "none" /\ grow.pc = "inner"
    /\ LET l1   == Cell(GrowSt, inode.indirect2, grow.a0)
           i    == FindBlock(queue, l1)
           m    == [GrowSt EXCEPT !.queue[i] = GetMut(queue[i], 0, BLOCK_SIZE, FALSE).entry]
           t2   == TakeId(m)
           s2   == StDrop(SetCell(t2, l1, grow.b0, t2.id), l1)
           wrap == grow.b0 + 1 = INODE_INDIRECT1_COUNT
       IN
       /\ l1 \notin HeldLocks
       /\ GrowTo(s2, "loop", IF wrap THEN grow.a0 + 1 ELSE grow.a0,
                 IF wrap THEN 0 ELSE grow.b0 + 1, grow.a1, grow.b1)
       /\ last' = Label("inc_fill", l1, <<>>, <<>>, <<>>)
    /\ UNCHANGED <<orphans, mgrLock, syncPos, shadow, syncDirtied, nextFree, descending, grows,
                   writes, shrunk, owned, file>>

\* the closure over indirect2 returns (line 217): the entry's lock is given
\* back and the handle dropped; increase_size returns
IncReturn ==
    /\ aborted = "none" /\ grow.pc = "loop"
    /\ ~GrowMore
    /\ GrowTo(StDrop(GrowSt, inode.indirect2), "idle", 0, 0, 0, 0)
    /\ last' = Label("inc_return", inode.indirect2, <<>>, <<>>, <<>>)
    /\ UNCHANGED <<orphans, mgrLock, syncPos, shadow, syncDirtied, nextFree, descending, grows,
                   writes, shrunk, owned, file>>

\* block_cache_syn_all: cache.lock().sync() of the next entry, once the
\* entry's lock is free
SynAllStepLocked ==
    /\ mgrLock
    /\ syncPos <= Len(queue)
    /\ queue[syncPos].block_id \notin HeldLocks
    /\ SynAllStep

\* the sizes the thread grows the file to: within the direct entries, into
\* indirect1, and one and two second-level blocks into indirect2
LockSizes ==
    {1, DIRECT_BOUND * BLOCK_SIZE + 1, INDIRECT1_BOUND * BLOCK_SIZE + 1,
     (INDIRECT1_BOUND + INODE_INDIRECT1_COUNT + 1) * BLOCK_SIZE}

\* one thread grows the file, one thread runs block_cache_syn_all, and a
\* caller takes, reads and drops a handle of block 0
NextLocks ==
    \/ \E n \in LockSizes : n >= inode.size /\ IncStart(n)
    \/ IncGetIndirect1
    \/ IncFillIndirect1
    \/ IncGetIndirect2
    \/ IncLockIndirect2
    \/ IncLoopGet
    \/ IncFillInner
    \/ IncReturn
    \/ SynAllLock
    \/ SynAllStepLocked
    \/ SynAllReturn
    \/ GetHit(0)
    \/ GetMiss(0)
    \/ GetPanic(0)
    \/ \E i \in 1 .. Len(queue) : queue[i].block_id = 0 /\ Read(i, 0, BLOCK_SIZE, FALSE)
    \/ \E i \in 1 .. Len(queue) : queue[i].block_id = 0 /\ Release(i)

SpecLocks == InitInode /\ [][NextLocks]_vars

\* ------------------------------------------------------------- DirEntry
\* A DirEntry is [name, inode_number]: name an array of NAME_LENGTH_LIMIT + 1
\* bytes (u8, 0 .. 255), inode_number a u32.  #[repr(C)] puts the name first
\* and the number right behind it; as_bytes is that memory, the number in the
\* byte order of the machine (little-endian on riscv64).
U8_MOD == 2 ^ 8
DIRENT_SIZE == NAME_LENGTH_LIMIT + 1 + 4

\* the 4 bytes of a u32, highest byte first
U32BytesBigEndian(n) ==
    <<(n \div (U8_MOD * U8_MOD * U8_MOD)) % U8_MOD, (n \div (U8_MOD * U8_MOD)) % U8_MOD,
      (n \div U8_MOD) % U8_MOD, n % U8_MOD>>

\* the 4 bytes of a u32 in memory, lowest byte first
U32Bytes(n) ==
    <<n % U8_MOD, (n \div U8_MOD) % U8_MOD, (n \div (U8_MOD * U8_MOD)) % U8_MOD,
      (n \div (U8_MOD * U8_MOD * U8_MOD)) % U8_MOD>>

\* the u32 whose 4 bytes in memory are b
U32Of(b) ==
    b[1] + U8_MOD * b[2] + (U8_MOD * U8_MOD) * b[3] + (U8_MOD * U8_MOD * U8_MOD) * b[4]

\* DirEntry::empty()
DirEntryEmpty ==
    [name |-> [i \in 1 .. (NAME_LENGTH_LIMIT + 1) |-> 0], inode_number |-> 0, panic |-> "none"]

\* DirEntry::new(name, inode_number): bytes[..name.len()].copy_from_slice(..)
\* into a zeroed array; a name longer than the array panics on the slice
DirEntryNew(name, inode_number) ==
    IF Len(name) > NAME_LENGTH_LIMIT + 1 THEN [DirEntryEmpty EXCEPT !.panic = "index"]
    ELSE [name |-> [i \in 1 .. (NAME_LENGTH_LIMIT + 1) |->
                      IF i <= Len(name) THEN name[i] ELSE 0],
          inode_number |-> inode_number, panic |-> "none"]

\* as_bytes(&self): the DIRENT_SIZE bytes of the entry
AsBytes(e) == e.name \o U32Bytes(e.inode_number)

\* as_bytes_mut() of an entry and copy_from_slice(b): the entry whose bytes
\* are b
FromBytes(b) ==
    [name |-> SubSeq(b, 1, NAME_LENGTH_LIMIT + 1),
     inode_number |-> U32Of(SubSeq(b, NAME_LENGTH_LIMIT + 2, DIRENT_SIZE)), panic |-> "none"]

\* core::str::from_utf8 on one- and two-byte sequences: an ASCII byte, or a
\* lead byte 0xC2 .. 0xDF and one continuation byte 0x80 .. 0xBF
RECURSIVE IsUtf8(_)
IsUtf8(b) ==
    IF b = <<>> THEN TRUE
    ELSE IF b[1] < 128 THEN IsUtf8(Tail(b))
    ELSE IF b[1] \in 194 .. 223 /\ Len(b) >= 2 /\ b[2] \in 128 .. 191 THEN IsUtf8(Tail(Tail(b)))
    ELSE FALSE

\* (0usize..).find(|i| self.name[*i] == 0): the first index that holds 0; the
\* search runs off the end of the array when there is none
RECURSIVE FirstZero(_, _)
FirstZero(name, i) ==
    IF i >= Len(name) THEN Len(name) + 1
    ELSE IF name[i + 1] = 0 THEN i
    ELSE FirstZero(name, i + 1)

\* name(&self): the bytes before the first 0, as text
DirEntryName(e) ==
    LET len == FirstZero(e.name, 0) IN
    IF len > Len(e.name) THEN [panic |-> "index", str |-> <<>>]
    ELSE IF ~IsUtf8(SubSeq(e.name, 1, len)) THEN [panic |-> "utf8", str |-> <<>>]
    ELSE [panic |-> "none", str |-> SubSeq(e.name, 1, len)]

\* the characters names are made of, as UTF-8: NUL, 'a', and the two bytes
\* of U+00E9
NameChars == {<<0>>, <<97>>, <<195, 169>>}

RECURSIVE Flatten(_)
Flatten(cs) == IF cs = <<>> THEN <<>> ELSE Head(cs) \o Flatten(Tail(cs))

\* the names callers pass: every text of these characters of at most
\* NAME_LENGTH_LIMIT + 2 bytes
DirNames ==
    {b \in {Flatten(cs) : cs \in UNION {[1 .. k -> NameChars] : k \in 0 .. (NAME_LENGTH_LIMIT + 2)}} :
        Len(b) <= NAME_LENGTH_LIMIT + 2}

\* the inode numbers callers pass: 0, and values that fill one, two, three
\* and four bytes
InodeNumbers == {0, 5, 255, 256, 65535, 65536, 16777215, 16777216, 2147483647}

\* DirEntry::new(name, n), as_bytes(), and the entry rebuilt from those
\* bytes asked for its name() and inode_number().  at: the name, ret: <<the
\* bytes, name(), inode_number()>>
DirEntryCall(name, n) ==
    /\ aborted = "none"
    /\ LET e == DirEntryNew(name, n)
           b == AsBytes(e)
           r == DirEntryName(FromBytes(b))
       IN
       IF e.panic # "none"
       THEN /\ aborted' = e.panic
            /\ last' = Label("dirent_new", n, name, <<>>, <<>>)
       ELSE /\ aborted' = r.panic
            /\ last' = Label("dirent_new", n, name, <<>>,
                             <<b, r.str, FromBytes(b).inode_number>>)
    /\ UNCHANGED <<disk, queue, orphans, mgrLock, syncPos, shadow, syncDirtied, ivars>>

\* DirEntry::empty() asked for its name() and inode_number()
DirEntryEmptyCall ==
    /\ aborted = "none"
    /\ LET r == DirEntryName(DirEntryEmpty) IN
       /\ aborted' = r.panic
       /\ last' = Label("dirent_empty", 0, <<>>, <<>>,
                        <<AsBytes(DirEntryEmpty), r.str, DirEntryEmpty.inode_number>>)
    /\ UNCHANGED <<disk, queue, orphans, mgrLock, syncPos, shadow, syncDirtied, ivars>>

NextDir ==
    \/ \E name \in DirNames, n \in InodeNumbers : DirEntryCall(name, n)
    \/ DirEntryEmptyCall

SpecDir == Init /\ [][NextDir]_vars

\* ------------------------------------------------------------- properties
\* the block ids of the resident entries, in queue order
Ids(q) == [i \in 1 .. Len(q) |-> q[i].block_id]

Resident(q, b) == \E i \in 1 .. Len(q) : q[i].block_id = b

\* the bytes a get_block_cache of b would hand out now: those of the resident
\* entry, or those the device holds
BytesOf(b) ==
    IF Resident(queue, b)
    THEN (CHOOSE e \in {queue[i] : i \in 1 .. Len(queue)} : e.block_id = b).cache
    ELSE disk[b]

\* C1: no dirty write is ever lost: in every reachable state and for every
\* block id, the bytes of the resident entry (or of the device when the block
\* is not resident) are the bytes the last modify of that block produced.
C1_NoLostWrite == \A b \in BlockIds : BytesOf(b) = shadow[b]

\* C1 witness: a block was modified, evicted, and is loaded again with the
\* written bytes
C1_Witness ==
    /\ last.op \in {"get_miss", "get_evict"}
    /\ shadow[last.arg] # ZeroBlock
    /\ queue[Len(queue)].block_id = last.arg
    /\ queue[Len(queue)].cache = shadow[last.arg]

\* C2: the queue holds at most one entry per block id and at most
\* BLOCK_CACHE_SIZE entries.
C2_QueueBounded ==
    /\ Len(queue) <= BLOCK_CACHE_SIZE
    /\ \A i, j \in 1 .. Len(queue) : queue[i].block_id = queue[j].block_id => i = j

\* C2 witness: a full queue after a get that evicted, with callers holding
\* handles to more than one entry
C2_Witness ==
    /\ last.op = "get_evict"
    /\ Len(queue) = BLOCK_CACHE_SIZE
    /\ \A i \in 1 .. Len(queue) : queue[i].strong > 1

\* a step that is a call of get_block_cache
IsGet(l) == l.op \in {"get_hit", "get_miss", "get_evict", "get_panic"}

\* C3: pinning: an entry some caller holds (strong count > 1) is in the queue
\* after every step, whoever acquires or releases handles, so no handle ever
\* refers to an entry that left the queue and a later get_block_cache of the
\* id is handed that same entry.
C3_Pinned ==
    /\ [](orphans = <<>>)
    /\ [][\A i \in 1 .. Len(queue) :
            queue[i].strong > 1 => Resident(queue', queue[i].block_id)]_vars

\* C3 witness: a miss on a full cache passed over a held entry at the front
\* and evicted a later one
C3_Witness ==
    /\ last.op = "get_evict"
    /\ last.ret[2] > 1
    /\ queue[1].strong > 1

\* C4: a miss on a full cache evicts the earliest-inserted entry whose strong
\* count is one (held entries before it stay), writes it back first if it is
\* dirty, then loads the new block and inserts it at the back; a hit leaves
\* the order of the queue as it is.
C4_FifoEviction ==
    [][/\ (last'.op \in {"get_miss", "get_evict"} /\ Len(queue) = BLOCK_CACHE_SIZE) =>
            \E i \in 1 .. Len(queue) :
                LET v == queue[i]
                    d == IF v.modified THEN [disk EXCEPT ![v.block_id] = v.cache] ELSE disk
                IN
                /\ v.strong = 1
                /\ \A j \in 1 .. (i - 1) : queue[j].strong > 1
                /\ disk' = d
                /\ last'.io = (IF v.modified THEN <<WriteEv(v.block_id)>> ELSE <<>>)
                                 \o <<ReadEv(last'.arg)>>
                /\ queue' = Append(RemoveAt(queue, i),
                                   [cache |-> d[last'.arg], block_id |-> last'.arg,
                                    modified |-> FALSE, strong |-> 2])
       /\ (last'.op \in {"get_miss", "get_evict"} /\ Len(queue) < BLOCK_CACHE_SIZE) =>
            /\ Len(queue') = Len(queue) + 1
            /\ SubSeq(queue', 1, Len(queue)) = queue
            /\ queue'[Len(queue')].block_id = last'.arg
       /\ last'.op = "get_hit" => Ids(queue') = Ids(queue)
      ]_vars

\* C4 witness: one more distinct id than the cache holds was requested with
\* no handle kept: the first-inserted entry, dirty, was written back and
\* evicted
C4_Witness ==
    /\ last.op = "get_evict"
    /\ last.ret[2] = 1
    /\ HandlesHeld = 1
    /\ last.io = <<WriteEv(last.ret[1]), ReadEv(last.arg)>>

AllHeldFull ==
    /\ Len(queue) = BLOCK_CACHE_SIZE
    /\ \A i \in 1 .. Len(queue) : queue[i].strong > 1

\* C5: with the cache full and every entry held by a caller, a
\* get_block_cache of a non-resident id panics: nothing is evicted, loaded or
\* handed out, and nothing happens after the panic; a get_block_cache of a
\* resident id is still served.
C5_Exhaustion ==
    [][/\ (AllHeldFull /\ IsGet(last') /\ ~Resident(queue, last'.arg)) =>
            /\ aborted' = "RunOutOfBlockCache"
            /\ queue' = queue /\ orphans' = orphans /\ disk' = disk
            /\ last'.io = <<>>
       /\ (AllHeldFull /\ IsGet(last') /\ Resident(queue, last'.arg)) =>
            /\ aborted' = "none"
            /\ HandlesHeld' = HandlesHeld + 1
            /\ Len(queue') = BLOCK_CACHE_SIZE
       /\ aborted # "none" => UNCHANGED vars
       /\ aborted' = "RunOutOfBlockCache" => AllHeldFull
      ]_vars

\* C5 witness: the panic, in a full cache whose entries are all held
C5_Witness ==
    /\ aborted = "RunOutOfBlockCache"
    /\ AllHeldFull
    /\ ~Resident(queue, last.arg)

\* C6: a get_block_cache of a resident id is a hit: no device read or write,
\* and the handle is one more reference to the entry already in the queue;
\* a read through any handle returns the bytes of the last modify of the
\* block, through whichever handle that modify was made.
C6_HitShares ==
    /\ [](last.op = "read" /\ last.at = <<0, BLOCK_SIZE>> => last.ret = shadow[last.arg])
    /\ [][(IsGet(last') /\ Resident(queue, last'.arg)) =>
            /\ last'.op = "get_hit"
            /\ last'.io = <<>>
            /\ disk' = disk
            /\ \E i \in 1 .. Len(queue) :
                 /\ queue[i].block_id = last'.arg
                 /\ queue' = [queue EXCEPT ![i].strong = @ + 1]
         ]_vars

\* C6 witness: an entry held through two handles was modified and is read
C6_Witness ==
    /\ last.op = "read"
    /\ last.ret # ZeroBlock
    /\ \E i \in 1 .. Len(queue) :
         /\ queue[i].block_id = last.arg
         /\ queue[i].strong >= 3
         /\ queue[i].modified

\* entry e is clean and the device holds its bytes
Flushed(e, d) == ~e.modified /\ d[e.block_id] = e.cache

\* C7 as stated: when block_cache_syn_all has returned, every resident entry
\* is clean and the device holds its bytes.
C7_AllCleanAtReturn ==
    last.op = "syn_all_return" => \A i \in 1 .. Len(queue) : Flushed(queue[i], disk)

\* C7 amended: when block_cache_syn_all returns, every resident entry that no
\* caller modified after the call flushed it is clean and the device holds
\* its bytes; while the call runs the queue keeps its entries and their
\* order (nothing is evicted).
C7_SynAllFlushes ==
    [][/\ last'.op = "syn_all_return" =>
            /\ queue' = queue
            /\ \A i \in 1 .. Len(queue') :
                 i \notin syncDirtied => Flushed(queue'[i], disk')
       /\ mgrLock => (Ids(queue') = Ids(queue) /\ orphans' = orphans)
      ]_vars

\* C7 witness: block_cache_syn_all returned over a full queue with written
\* entries, all of them flushed
C7_Witness ==
    /\ last.op = "syn_all_return"
    /\ Len(queue) = BLOCK_CACHE_SIZE
    /\ \A i \in 1 .. Len(queue) : Flushed(queue[i], disk)
    /\ \E i \in 1 .. Len(queue) : queue[i].cache # ZeroBlock /\ queue[i].strong > 1

\* C8: sync writes the block to the device exactly when the entry is dirty
\* and leaves it clean; a second sync with no modify in between writes
\* nothing and changes nothing.
C8_SyncIdempotent ==
    /\ [](\A i \in 1 .. Len(queue) :
            LET e  == queue[i]
                r1 == Sync(e, disk)
                r2 == Sync(r1.entry, r1.disk)
            IN
            /\ r1.io = (IF e.modified THEN <<WriteEv(e.block_id)>> ELSE <<>>)
            /\ Flushed(r1.entry, r1.disk) = (e.modified \/ Flushed(e, disk))
            /\ ~r1.entry.modified
            /\ r2.io = <<>> /\ r2.entry = r1.entry /\ r2.disk = r1.disk)
    /\ [][last'.op = "syn_all_step" =>
            LET e == queue[syncPos] IN
            /\ (last'.io # <<>>) = e.modified
            /\ ~queue'[syncPos].modified
            /\ e.modified => disk' = [disk EXCEPT ![e.block_id] = e.cache]
            /\ ~e.modified => (disk' = disk /\ queue' = queue)
         ]_vars

\* C8 witness: no entry was ever evicted (the queue is not full), an entry
\* with written bytes was flushed before, and a further sync of it wrote
\* nothing
C8_Witness ==
    /\ last.op = "syn_all_step"
    /\ last.io = <<>>
    /\ Len(queue) < BLOCK_CACHE_SIZE
    /\ queue[syncPos - 1].cache # ZeroBlock
    /\ Flushed(queue[syncPos - 1], disk)

\* C9: an entry that ceases to exist in a step (it is neither in the queue
\* nor held by a caller afterwards) and was dirty has had its bytes written
\* to the device at its block id, first of that step's device I/O.
C9_DropWritesBack ==
    [][\A i \in 1 .. Len(queue) :
         LET e == queue[i] IN
         (/\ e.modified
          /\ ~Resident(queue', e.block_id)
          /\ ~Resident(orphans', e.block_id)) =>
            /\ last'.io # <<>>
            /\ last'.io[1] = WriteEv(e.block_id)
            /\ disk'[e.block_id] = e.cache
      ]_vars

\* C9 witness: a dirty entry behind a held one was evicted and written back
C9_Witness ==
    /\ last.op = "get_evict"
    /\ last.ret[2] > 1
    /\ last.io[1] = WriteEv(last.ret[1])
    /\ disk[last.ret[1]] # ZeroBlock

\* C10: a typed read or modify with offset + size_of::<T>() > BLOCK_SIZE
\* panics, for read and for modify alike, with the entry (dirty flag and
\* bytes) as it was; with offset + size_of::<T>() <= BLOCK_SIZE it does not
\* fail.
C10_TypedAccessInBounds ==
    [][last'.op \in {"read", "modify"} =>
         LET offset    == last'.at[1]
             type_size == last'.at[2]
         IN
         /\ offset + type_size > BLOCK_SIZE => (aborted' # "none" /\ queue' = queue)
         /\ offset + type_size <= BLOCK_SIZE => aborted' = "none"
      ]_vars

\* ceil(n / d) in the integers
CeilDiv(n, d) == (n + d - 1) \div d

\* C19: for every u32 size, _data_blocks(size) returns ceil(size / BLOCK_SIZE)
\* (and so does not panic), the arithmetic being done in u32.
C19_DataBlocksIsCeil ==
    last.op = "total_blocks" =>
        /\ aborted = "none"
        /\ last.ret[1] = CeilDiv(last.arg, BLOCK_SIZE)

\* cell k of block b as the cache holds it now
CurCell(b, k) == BytesOf(b)[k + 1]

\* the block id the index structure gives logical block k: direct, through
\* indirect1, or through indirect2 and a second-level block
Resolve(k) ==
    IF k < DIRECT_BOUND THEN inode.direct[k + 1]
    ELSE IF k < INDIRECT1_BOUND THEN CurCell(inode.indirect1, k - DIRECT_BOUND)
    ELSE CurCell(CurCell(inode.indirect2, (k - INDIRECT1_BOUND) \div INODE_INDIRECT1_COUNT),
                 (k - INDIRECT1_BOUND) % INODE_INDIRECT1_COUNT)

\* get_block_id(k) called in the current state: its value and its panic
ResolveNow(k) ==
    GetBlockId([inode |-> inode, queue |-> queue, disk |-> disk, panic |-> "none"], k)

\* the ids logical block k takes in the documented order: the indirect1 block
\* id before the first indirect1 entry, the indirect2 block id before the
\* first second-level block, a second-level block's id before its first
\* entry, then the data block's id
ItemsAt(k) ==
    (IF k = DIRECT_BOUND THEN <<inode.indirect1>> ELSE <<>>)
    \o (IF k = INDIRECT1_BOUND THEN <<inode.indirect2>> ELSE <<>>)
    \o (IF k >= INDIRECT1_BOUND /\ (k - INDIRECT1_BOUND) % INODE_INDIRECT1_COUNT = 0
        THEN <<CurCell(inode.indirect2, (k - INDIRECT1_BOUND) \div INODE_INDIRECT1_COUNT)>>
        ELSE <<>>)
    \o <<Resolve(k)>>

\* the ids of logical blocks k0 .. k1 - 1 in the documented order
RECURSIVE Order(_, _)
Order(k0, k1) == IF k0 >= k1 THEN <<>> ELSE ItemsAt(k0) \o Order(k0 + 1, k1)

\* a call of increase_size the claims cover: new_size >= size, within the
\* maximum file size, on an inode that only ever grew
ValidGrowth ==
    /\ last.op = "increase_size"
    /\ ~shrunk
    /\ last.arg <= MaxFileSize

\* C12: increase_size with new_size >= size within the maximum file size and
\* exactly block_num_needed(new_size) distinct ids completes with no id left
\* over and none missing, the ids taken in the documented order; every new
\* logical block then resolves through get_block_id to one of the supplied
\* ids, no two to the same.
C12_GrowConsumesInOrder ==
    ValidGrowth =>
        LET ids == last.at[1]
            new == Blocks(last.at[2].size) .. (Blocks(last.arg) - 1)
        IN
        /\ aborted = "none"
        /\ last.ret = 0
        /\ ids = Order(Blocks(last.at[2].size), Blocks(last.arg))
        /\ \A k \in new :
             /\ ResolveNow(k).st.panic = "none"
             /\ \E i \in 1 .. Len(ids) : ids[i] = ResolveNow(k).val
        /\ \A j, k \in new : ResolveNow(j).val = ResolveNow(k).val => j = k

\* the ids of sequence v, as a set
Range(v) == {v[i] : i \in 1 .. Len(v)}

\* C13: clear_size after growths that were each given exactly
\* block_num_needed distinct fresh ids returns every id those growths
\* consumed, data and index blocks alike, each once and no other; afterwards
\* size, every direct entry, indirect1 and indirect2 are 0.
C13_ClearReturnsAll ==
    (last.op = "clear_size" /\ ~shrunk) =>
        /\ aborted = "none"
        /\ Range(last.ret) = last.at
        /\ Len(last.ret) = Cardinality(last.at)
        /\ inode = EmptyInode

\* C13 witness: two growths that reached into a second second-level block,
\* then clear_size returned every id handed out
C13_Witness ==
    /\ last.op = "clear_size"
    /\ ~shrunk
    /\ grows = 2
    /\ Len(last.ret) > TotalOf(INDIRECT1_BOUND + INODE_INDIRECT1_COUNT)
    /\ Len(last.ret) = nextFree - 1

\* C17: increase_size to any new_size >= size up to the maximum addressable
\* size (INODE_DIRECT_COUNT + INODE_INDIRECT1_COUNT + INODE_INDIRECT2_COUNT
\* blocks), given exactly block_num_needed(new_size) ids, does not abort, and
\* every logical block below the new block count then resolves to a block the
\* inode owns.
C17_GrowsToMaximum ==
    ValidGrowth =>
        /\ aborted = "none"
        /\ \A k \in 0 .. (Blocks(last.arg) - 1) :
             /\ ResolveNow(k).st.panic = "none"
             /\ ResolveNow(k).val \in owned

\* C18: block_num_needed(new_size) and increase_size(new_size, ...) with
\* new_size < size both abort, and leave the size and the index fields of the
\* inode as they were.
C18_ShrinkAborts ==
    (last.op \in {"block_num_needed", "increase_size"} /\ last.arg < last.at[2].size) =>
        /\ aborted # "none"
        /\ inode = last.at[2]

\* the count a transfer of len bytes at offset returns on a file of size
\* bytes when it is clamped to the file
Clamped(offset, len, size) == IF offset >= size THEN 0 ELSE Min(len, size - offset)

\* C14: on an inode grown with distinct ids, write_at(offset, buf) with
\* offset + len <= size completes and returns len, and a read_at(offset, len)
\* that follows returns len bytes equal to buf, whatever blocks the range
\* crosses and whatever the cache evicted in between.
C14_WriteThenRead ==
    [][/\ (last'.op = "write_at" /\ last'.arg + Len(last'.at) <= inode.size) =>
            /\ aborted' = "none"
            /\ last'.ret = Len(last'.at)
       /\ (/\ last.op = "write_at" /\ last'.op = "read_at"
           /\ last'.arg = last.arg /\ last'.at = <<Len(last.at)>>
           /\ last.arg + Len(last.at) <= inode.size) =>
            /\ aborted' = "none"
            /\ last'.ret = <<Len(last.at), last.at>>
      ]_vars

C16_WriteTruncates ==
    last.op = "write_at" =>
        /\ aborted = "none"
        /\ last.ret = Clamped(last.arg, Len(last.at), inode.size)
        /\ inode.size = Len(file)

\* C20: a read_at or write_at at an offset <= size with an empty buffer, or
\* at offset = size, returns 0 and does not fail, in every inode state.
C20_ZeroBytesNoError ==
    (/\ last.op \in {"read_at", "write_at"}
     /\ last.arg <= inode.size
     /\ (last.arg = inode.size
         \/ (last.op = "read_at" /\ last.at = <<0>>)
         \/ (last.op = "write_at" /\ last.at = <<>>))) =>
        /\ aborted = "none"
        /\ (last.op = "read_at" => last.ret[1] = 0)
        /\ (last.op = "write_at" => last.ret = 0)

\* the thread inside increase_size has begun an operation and waits for a
\* lock: for the manager lock before a get_block_cache, for an entry's lock
\* before a closure
GrowWaits ==
    \/ grow.pc \in {"get1", "get2"} /\ mgrLock
    \/ grow.pc = "loop" /\ GrowMore /\ mgrLock
    \/ grow.pc = "inner" /\ Cell(GrowSt, inode.indirect2, grow.a0) \in HeldLocks

\* block_cache_syn_all holds the manager lock and waits for the lock of the
\* entry it is at
SynAllWaits ==
    /\ mgrLock
    /\ syncPos \in 1 .. Len(queue)
    /\ queue[syncPos].block_id \in HeldLocks

\* C11: under any interleaving of get_block_cache, typed read/modify,
\* block_cache_syn_all and the Disk Inode operations, every started operation
\* completes unless the cache-exhaustion abort occurs: in no reachable state
\* are threads blocked for ever on the manager lock and the entry locks, a
\* thread that holds an entry's lock and calls get_block_cache on one side
\* and the thread that holds the manager lock and locks entries on the other.
C11_NoLockDeadlock ==
    aborted = "none" => ~(GrowWaits /\ SynAllWaits)

\* a call DirEntry::new(name, n) with a name of at most NAME_LENGTH_LIMIT
\* bytes
DirCall == last.op = "dirent_new" /\ Len(last.at) <= NAME_LENGTH_LIMIT

\* the round trip gave the name and the number back
RoundTrips == aborted = "none" /\ last.ret[2] = last.at /\ last.ret[3] = last.arg

\* the name holds a zero byte
HasNul(name) == \E i \in 1 .. Len(name) : name[i] = 0

\* C21 as stated: for every name of at most NAME_LENGTH_LIMIT bytes and every
\* inode number n, DirEntry::new(name, n) turned into its bytes and rebuilt
\* from them has name() = name and inode_number() = n.
C21_RoundTripEveryName == DirCall => RoundTrips

\* C21: for every name of at most NAME_LENGTH_LIMIT bytes that holds no zero
\* byte and every inode number n, DirEntry::new(name, n) turned into its
\* DIRENT_SIZE bytes and rebuilt from them has name() = name and
\* inode_number() = n; DirEntry::empty() has the empty name and number 0.
C21_RoundTrip ==
    /\ (DirCall /\ ~HasNul(last.at)) =>
          RoundTrips /\ Len(last.ret[1]) = DIRENT_SIZE
    /\ last.op = "dirent_empty" =>
          aborted = "none" /\ last.ret[2] = <<>> /\ last.ret[3] = 0

\* a name of exactly NAME_LENGTH_LIMIT bytes with a two-byte character and a
\* number that fills four bytes came back
C21_Witness ==
    /\ DirCall /\ RoundTrips
    /\ Len(last.at) = NAME_LENGTH_LIMIT
    /\ \E i \in 1 .. Len(last.at) : last.at[i] > 127
    /\ last.arg > 16777216

\* the operations that run with the manager's guard alive: get_block_cache
\* is BLOCK_CACHE_MANAGER.lock().get_block_cache(..), the guard a temporary
\* of that statement, and block_cache_syn_all keeps its guard from
\* SynAllLock to SynAllReturn
UnderManagerLock(op) ==
    \/ op \in {"get_hit", "get_miss", "get_evict", "get_panic"}
    \/ op = "syn_all_step" /\ mgrLock

\* C22: no device read_block or write_block happens while the manager lock
\* is held, neither in get_block_cache (the load of a miss, the write-back of
\* an evicted entry) nor in block_cache_syn_all.
C22_NoIoUnderManagerLock == UnderManagerLock(last.op) => last.io = <<>>

\* the resident entry of block b in queue q (b resident in q)
EntryOf(q, b) == q[FindBlock(q, b)]

\* C23: dirty tracking.  In every step: an entry that was not resident
\* before the step (freshly loaded) is clean; an entry goes from clean to
\* dirty only in a typed modify of its block, and every typed modify that
\* returns leaves its entry dirty, whether or not it changed a byte; a typed
\* read changes no entry; an entry goes from dirty to clean only in a flush
\* that writes it to the device; and a device write_block is issued only for
\* an entry that was dirty before the step, and leaves it clean.
C23_DirtyTracking ==
    [][/\ \A i \in 1 .. Len(queue') :
             LET b == queue'[i].block_id IN
             IF FindBlock(queue, b) = 0
             THEN /\ ~queue'[i].modified
                  /\ last'.op \in {"get_miss", "get_evict"} /\ last'.arg = b
             ELSE /\ (~EntryOf(queue, b).modified /\ queue'[i].modified)
                        => last'.op = "modify" /\ last'.arg = b
                  /\ (EntryOf(queue, b).modified /\ ~queue'[i].modified)
                        => /\ last'.op = "syn_all_step" /\ last'.arg = b
                           /\ last'.io = <<WriteEv(b)>>
                           /\ disk'[b] = queue'[i].cache
       /\ (last'.op = "modify" /\ aborted' = "none")
             => EntryOf(queue', last'.arg).modified
       /\ last'.op = "read" => queue' = queue /\ disk' = disk
       /\ \A k \in 1 .. Len(last'.io) :
             last'.io[k].op = "write"
                => /\ FindBlock(queue, last'.io[k].id) # 0
                   /\ EntryOf(queue, last'.io[k].id).modified
                   /\ FindBlock(queue', last'.io[k].id) # 0
                         => ~EntryOf(queue', last'.io[k].id).modified
    ]_vars

\* a typed modify that changed no byte of a block nobody ever changed left
\* the entry dirty
C23_Witness ==
    /\ last.op = "modify" /\ aborted = "none"
    /\ FindBlock(queue, last.arg) # 0
    /\ EntryOf(queue, last.arg).modified
    /\ EntryOf(queue, last.arg).cache = disk[last.arg]
    /\ \A b \in BlockIds : shadow[b] = ZeroBlock /\ disk[b] = ZeroBlock

\* C24: read_at and write_at resolve only logical blocks below the data
\* block count of the size, for every inode state, offset and buffer length
\* (empty buffers and offset = size included): a call never asks the device
\* for a block it does not have, and every block it fetches into the cache
\* or marks dirty is a block of the file.
C24_OnlyAllocatedBlocks ==
    [][last'.op \in {"read_at", "write_at"} =>
          /\ aborted' # "device"
          /\ \A i \in 1 .. Len(queue') :
                LET b == queue'[i].block_id IN
                (\/ FindBlock(queue, b) = 0
                 \/ (queue'[i].modified /\ ~EntryOf(queue, b).modified))
                    => b \in owned
    ]_vars

\* the second-level index blocks a file of n data blocks uses, as positions
\* in the indirect2 block
SecondLevelUsed(n) ==
    IF n > INDIRECT1_BOUND
    THEN 0 .. ((n - INDIRECT1_BOUND - 1) \div INODE_INDIRECT1_COUNT)
    ELSE {}

FileByte(i) == CurCell(Resolve(i \div BLOCK_SIZE), i % BLOCK_SIZE)

\* the index blocks of the inode: the indirect1 block, the indirect2 block
\* and the second-level blocks its size uses
IndexBlocks ==
    (IF Blocks(inode.size) > DIRECT_BOUND THEN {inode.indirect1} ELSE {})
    \cup (IF Blocks(inode.size) > INDIRECT1_BOUND THEN {inode.indirect2} ELSE {})
    \cup {CurCell(inode.indirect2, a) : a \in SecondLevelUsed(Blocks(inode.size))}

\* C26: write_at(offset, buf) changes only the file bytes in
\* [offset, offset + bytes written): every other byte of the file reads as
\* before, and the size, the direct entries, indirect1 and indirect2 of the
\* inode and the contents of all its index blocks are as before.  (A call
\* that aborts has written no byte.)
C26_WriteFrame ==
    [][last'.op = "write_at" =>
          LET n == IF aborted' = "none" THEN last'.ret ELSE 0 IN
          /\ inode' = inode
          /\ \A i \in 0 .. (inode.size - 1) :
                ~(last'.arg <= i /\ i < last'.arg + n) => FileByte(i)' = FileByte(i)
          /\ \A b \in IndexBlocks : BytesOf(b)' = BytesOf(b)
    ]_vars

\* a write that began in the direct blocks and ended in the indirect1 blocks
\* of a file with bytes before and behind it completed, and changed bytes
C26_Witness ==
    /\ last.op = "write_at" /\ aborted = "none"
    /\ 0 < last.arg /\ last.arg < DIRECT_BOUND * BLOCK_SIZE
    /\ last.arg + last.ret > DIRECT_BOUND * BLOCK_SIZE
    /\ last.arg + last.ret < inode.size
    /\ \A i \in last.arg .. (last.arg + last.ret - 1) : FileByte(i) = last.at[i - last.arg + 1]
    /\ FileByte(last.arg - 1) = 0
    /\ IndexBlocks # {}

====
